---- MODULE Spec2Model ----
(***************************************************************************)
(* Model of the FastAPI wrapper around the video generation pipeline       *)
(* (src/app.py).  The wrapper resolves API keys, computes the character    *)
(* reference map that the scenes need, calls the three pipeline functions  *)
(* of generate.py and maps their failures to HTTP errors.                  *)
(*                                                                         *)
(* Python values are modelled as follows.  A str is a TLA+ string; None in *)
(* a str-typed slot is the string None.  A list is a sequence, a dict a    *)
(* function.  An Optional[Dict] is a record [present, map].  The detail of *)
(* an HTTPException is the sequence of the pieces of its f-string.         *)
(***************************************************************************)
EXTENDS Naturals, Sequences, FiniteSets

VARIABLES pc, secret_json, ref_files, route, req, image_api_key, veo_api_key,
          character_refs, scene_paths, trailer_path, calls, response, arg, ret

vars == <<pc, secret_json, ref_files, route, req, image_api_key, veo_api_key,
          character_refs, scene_paths, trailer_path, calls, response, arg, ret>>

(* The file system: the content of secret.json and the names whose         *)
(* reference image exists under the output directory.                      *)
env == <<secret_json, ref_files>>

handlerVars == <<route, req, image_api_key, veo_api_key, character_refs,
                 scene_paths, trailer_path, calls, response>>

----------------------------------------------------------------------------
(* Bounds of the explored inputs.                                          *)

MaxScenes == 2
MaxRefs == 2
MaxRouteScenes == 2

(* Character names of the scene lists given to the collector, and the      *)
(* names that reference maps and reference files range over.               *)
Names == {"A", "B", "C"}
RefNames == {"A", "B"}

(* A name that no scene references, for the extra entries of a caller's    *)
(* reference map.                                                          *)
ExtraName == "X"

----------------------------------------------------------------------------
(* Python values.                                                          *)

None == "<None>"

(* bool(x) of an Optional[str]. *)
Truthy(x) == x # None /\ x # ""

(* Python's `a or b`. *)
Or(a, b) == IF Truthy(a) THEN a ELSE b

Range(s) == {s[i] : i \in DOMAIN s}

SeqsUpTo(S, n) == UNION {[1..k -> S] : k \in 0..n}

RECURSIVE Join(_, _)
Join(names, sep) ==
    IF names = <<>> THEN <<>>
    ELSE IF Len(names) = 1 THEN <<Head(names)>>
    ELSE <<Head(names), sep>> \o Join(Tail(names), sep)

EmptyDict == [c \in {} |-> None]

NoRefs == [present |-> FALSE, map |-> EmptyDict]

(* A Scene; only reference_images takes part in the wrapper's logic. *)
Scene(refs) == [reference_images |-> refs]

SceneListsOver(names, maxScenes, maxRefs) ==
    SeqsUpTo({Scene(r) : r \in SeqsUpTo(names, maxRefs)}, maxScenes)

SceneLists == SceneListsOver(Names, MaxScenes, MaxRefs)
BuildSceneLists == SceneListsOver(RefNames, MaxScenes, MaxRefs)
(* The scenes of a request reference at most one character each. *)
RouteSceneLists == SceneListsOver(RefNames, MaxRouteScenes, 1)

(* scene.model_dump() / design.model_dump(): the model as a plain dict. *)
SceneDump(scene) == [f \in DOMAIN scene |-> scene[f]]
DumpAll(models) == [i \in DOMAIN models |-> SceneDump(models[i])]

(* A CharacterDesign. *)
Design(name) == [character_name |-> name, image_generation_prompt |-> "prompt"]
DesignLists == {<<>>, <<Design("A")>>, <<Design("B"), Design("A")>>}

----------------------------------------------------------------------------
(* The file system as the wrapper sees it.                                 *)

(* A pathlib.Path, the `/` operator on paths, and str(path). *)
Path(s) == [path |-> s]
PathJoin(p, name) == Path(p.path \o "/" \o name)
StrPath(p) == p.path

(* None in a Path-typed slot. *)
NoPath == Path(None)

OUTPUT_DIR == Path("output")

(* Content of secret.json: absent, not JSON, JSON that is no object, or an *)
(* object whose project_api_key is `key` (None when the field is missing). *)
Secret(kind, key) == [kind |-> kind, key |-> key]
SecretFiles ==
    {Secret("absent", None), Secret("malformed", None), Secret("not_object", None)}
    \cup {Secret("object", k) : k \in {None, "", "s1"}}

(* Caller-supplied reference paths. *)
CustomPath(c) == "custom/" \o c \o ".png"
ProvidedRefs ==
    {NoRefs} \cup {[present |-> TRUE, map |-> [c \in S |-> CustomPath(c)]] :
                    S \in SUBSET (RefNames \cup {ExtraName})}

----------------------------------------------------------------------------
(* Results of the wrapper's helpers: a value or a raised HTTPException.    *)

Return(v) == [raised |-> FALSE, value |-> v]
HTTPException(status_code, detail) ==
    [raised |-> TRUE, status_code |-> status_code, detail |-> detail]

(* _load_default_api_key swallowing the JSONDecodeError. *)
load_default_api_key_lenient(secret) ==
    IF secret.kind \in {"absent", "malformed"} THEN Return(None)
    ELSE IF secret.kind = "not_object"
        THEN HTTPException(500, <<"Internal Server Error">>)
    ELSE Return(secret.key)

(* _load_default_api_key.  On JSON that is no object, payload.get raises   *)
(* an AttributeError that nothing catches: the framework answers 500.      *)
load_default_api_key(secret) ==
    IF secret.kind = "absent" THEN Return(None)
    ELSE IF secret.kind = "malformed"
        THEN HTTPException(500, <<"Invalid secret.json format: ", "JSONDecodeError">>)
    ELSE IF secret.kind = "not_object"
        THEN HTTPException(500, <<"Internal Server Error">>)
    ELSE Return(secret.key)

(* _resolve_api_key with `if api_key is None` for `if not api_key`. *)
resolve_api_key_none_only(provided, key_name, secret) ==
    IF provided # None THEN Return(provided)
    ELSE LET default == load_default_api_key(secret) IN
         IF default.raised THEN default
         ELSE IF default.value = None
             THEN HTTPException(400,
                    <<key_name, " is required. Provide it in the request body or secret.json.">>)
         ELSE Return(default.value)

(* _resolve_api_key; `secret` is the content of secret.json. *)
resolve_api_key(provided, key_name, secret) ==
    IF Truthy(provided) THEN Return(provided)
    ELSE LET default == load_default_api_key(secret) IN
         IF default.raised THEN default
         ELSE IF ~Truthy(default.value)
             THEN HTTPException(400,
                    <<key_name, " is required. Provide it in the request body or secret.json.">>)
         ELSE Return(default.value)

(* The inner loop without the `seen` test. *)
RECURSIVE scan_reference_images_unseen(_, _)
scan_reference_images_unseen(refs, st) ==
    IF refs = <<>> THEN st
    ELSE scan_reference_images_unseen(Tail(refs),
            [seen |-> st.seen \cup {Head(refs)},
             referenced |-> Append(st.referenced, Head(refs))])

(* The inner loop of _collect_referenced_characters over one scene. *)
RECURSIVE scan_reference_images(_, _)
scan_reference_images(refs, st) ==
    IF refs = <<>> THEN st
    ELSE LET character == Head(refs) IN
         scan_reference_images(Tail(refs),
            IF character \notin st.seen
            THEN [seen |-> st.seen \cup {character},
                  referenced |-> Append(st.referenced, character)]
            ELSE st)

RECURSIVE scan_scenes(_, _)
scan_scenes(scenes, st) ==
    IF scenes = <<>> THEN st
    ELSE scan_scenes(Tail(scenes),
                     scan_reference_images(Head(scenes).reference_images, st))

(* _collect_referenced_characters *)
collect_referenced_characters(scenes) ==
    scan_scenes(scenes, [seen |-> {}, referenced |-> <<>>]).referenced

(* OUTPUT_DIR / "refs" / f"{character}.png" *)
ref_path(character) == PathJoin(PathJoin(OUTPUT_DIR, "refs"), character \o ".png")

(* provided_missing that stops at the first missing name. *)
provided_missing_first(scenes, provided_refs) ==
    LET missing == SelectSeq(collect_referenced_characters(scenes),
                             LAMBDA char : char \notin DOMAIN provided_refs.map)
    IN IF missing = <<>> THEN <<>> ELSE <<Head(missing)>>

(* The provided_refs branch of _build_character_ref_map. *)
provided_missing(scenes, provided_refs) ==
    SelectSeq(collect_referenced_characters(scenes),
              LAMBDA char : char \notin DOMAIN provided_refs.map)

(* The autoload loop skipping a missing file instead of raising. *)
RECURSIVE autoload_skipping(_, _, _)
autoload_skipping(characters, files, refs) ==
    IF characters = <<>> THEN Return(refs)
    ELSE LET character == Head(characters) IN
         IF character \notin files
         THEN autoload_skipping(Tail(characters), files, refs)
         ELSE autoload_skipping(Tail(characters), files,
                [c \in DOMAIN refs \cup {character} |->
                    IF c = character THEN StrPath(ref_path(character)) ELSE refs[c]])

(* The autoload loop of _build_character_ref_map: `files` are the names    *)
(* whose reference image exists, `refs` the map built so far.              *)
RECURSIVE autoload(_, _, _)
autoload(characters, files, refs) ==
    IF characters = <<>> THEN Return(refs)
    ELSE LET character == Head(characters) IN
         IF character \notin files
         THEN HTTPException(400,
                <<"Reference image not found for '", character, "' at ", StrPath(ref_path(character))>>)
         ELSE autoload(Tail(characters), files,
                [c \in DOMAIN refs \cup {character} |->
                    IF c = character THEN StrPath(ref_path(character)) ELSE refs[c]])

(* bool(provided_refs) of an Optional[Dict]. *)
RefsTruthy(provided_refs) == provided_refs.present /\ DOMAIN provided_refs.map # {}

(* _build_character_ref_map *)
build_character_ref_map(scenes, provided_refs, autoload_refs, files) ==
    IF RefsTruthy(provided_refs)
    THEN IF provided_missing(scenes, provided_refs) # <<>>
         THEN HTTPException(400,
                <<"Missing reference paths for: ">>
                \o Join(provided_missing(scenes, provided_refs), ", "))
         ELSE Return(provided_refs.map)
    ELSE IF ~autoload_refs
    THEN IF collect_referenced_characters(scenes) # <<>>
         THEN HTTPException(400,
                <<"Reference images required but no character_refs provided.">>)
         ELSE Return(EmptyDict)
    ELSE autoload(collect_referenced_characters(scenes), files, EmptyDict)

----------------------------------------------------------------------------
(* The helpers applied to bounded inputs.                                  *)

NotReturned == [raised |-> FALSE, value |-> None]

NoRequest == [none |-> TRUE]
NoResponse == [status_code |-> 0, body |-> [none |-> TRUE]]

HandlerIdle ==
    /\ route = "none"
    /\ req = NoRequest
    /\ image_api_key = None
    /\ veo_api_key = None
    /\ character_refs = EmptyDict
    /\ scene_paths = <<>>
    /\ trailer_path = NoPath
    /\ calls = <<>>
    /\ response = NoResponse

InitCollect ==
    /\ pc = "call"
    /\ arg \in [scenes : SceneLists]
    /\ ret = NotReturned
    /\ secret_json = Secret("absent", None)
    /\ ref_files = {}
    /\ HandlerIdle

CollectReferencedCharacters ==
    /\ pc = "call"
    /\ ret' = Return(collect_referenced_characters(arg.scenes))
    /\ pc' = "return"
    /\ UNCHANGED <<arg, env, handlerVars>>

SpecCollect == InitCollect /\ [][CollectReferencedCharacters]_vars

InitBuild ==
    /\ pc = "call"
    /\ arg \in [scenes : BuildSceneLists, provided_refs : ProvidedRefs,
                autoload_refs : BOOLEAN, files : SUBSET RefNames]
    /\ ret = NotReturned
    /\ secret_json = Secret("absent", None)
    /\ ref_files = {}
    /\ HandlerIdle

BuildCharacterRefMap ==
    /\ pc = "call"
    /\ ret' = build_character_ref_map(arg.scenes, arg.provided_refs,
                                      arg.autoload_refs, arg.files)
    /\ pc' = "return"
    /\ UNCHANGED <<arg, env, handlerVars>>

SpecBuild == InitBuild /\ [][BuildCharacterRefMap]_vars

KeyNames == {"image_api_key", "veo_api_key"}

(* Keys a request may carry: omitted, empty or set. *)
ImageKeys == {None, "", "k_img"}
VeoKeys == {None, "", "k_veo"}

InitResolve ==
    /\ pc = "call"
    /\ arg \in [provided : ImageKeys \cup VeoKeys \cup {"s1"}, key_name : KeyNames,
                secret : SecretFiles]
    /\ ret = NotReturned
    /\ secret_json = Secret("absent", None)
    /\ ref_files = {}
    /\ HandlerIdle

ResolveApiKey ==
    /\ pc = "call"
    /\ ret' = resolve_api_key(arg.provided, arg.key_name, arg.secret)
    /\ pc' = "return"
    /\ UNCHANGED <<arg, env, handlerVars>>

SpecResolve == InitResolve /\ [][ResolveApiKey]_vars

----------------------------------------------------------------------------
(* The pipeline functions of generate.py, as the wrapper sees them: each   *)
(* call returns a value or raises.                                         *)

Ok(v) == [kind |-> "ok", value |-> v]
Raises(kind, message) == [kind |-> kind, message |-> message]

DelegateFailures(fn) ==
    {Raises("ValueError", fn \o ": invalid input"),
     Raises("Exception", fn \o ": provider failure")}

CharacterReferenceOutcomes ==
    {Ok([c \in S |-> StrPath(ref_path(c))]) : S \in SUBSET RefNames}
    \cup DelegateFailures("generate_character_references")

ScenePath(n) == PathJoin(PathJoin(OUTPUT_DIR, "scenes"), "scene_" \o n \o ".mp4")

SceneVideoOutcomes ==
    {Ok(<<>>), Ok(<<ScenePath("1")>>), Ok(<<ScenePath("2"), ScenePath("1")>>)}
    \cup DelegateFailures("generate_scene_videos")

StitchOutcomes ==
    {Ok(PathJoin(OUTPUT_DIR, "trailer_no_audio.mp4"))}
    \cup DelegateFailures("stitch_videos")

(* Only the `except Exception` clause. *)
map_delegate_error_500(out) == HTTPException(500, <<out.message>>)

(* except ValueError / except Exception around the delegate calls. *)
map_delegate_error(out) ==
    IF out.kind = "ValueError" THEN HTTPException(400, <<out.message>>)
    ELSE HTTPException(500, <<out.message>>)

(* The response FastAPI sends for a raised HTTPException. *)
ErrorResponse(exc) == [status_code |-> exc.status_code, body |-> [detail |-> exc.detail]]

OkResponse(body) == [status_code |-> 200, body |-> body]

StrPaths(paths) == [i \in DOMAIN paths |-> StrPath(paths[i])]

----------------------------------------------------------------------------
(* The routes.                                                             *)

CHARACTER_REFERENCES == "POST /generate/character-references"
SCENE_VIDEOS == "POST /generate/scene-videos"
TRAILER == "POST /generate/trailer"
HEALTH == "GET /health"

CharacterReferenceRequests ==
    [character_designs : DesignLists, image_api_key : ImageKeys]

SceneVideoRequests ==
    [scenes : RouteSceneLists, image_api_key : ImageKeys, veo_api_key : VeoKeys,
     character_refs : ProvidedRefs, autoload_refs : BOOLEAN]

TrailerGenerationRequests ==
    [character_designs : DesignLists, scenes : RouteSceneLists,
     image_api_key : ImageKeys, veo_api_key : VeoKeys, stitch_trailer : BOOLEAN]

Init ==
    /\ pc = "idle"
    /\ secret_json \in SecretFiles
    /\ ref_files \in SUBSET RefNames
    /\ HandlerIdle
    /\ arg = NoRequest
    /\ ret = NotReturned

(* healthcheck *)
Healthcheck ==
    /\ pc = "idle"
    /\ route' = HEALTH
    /\ response' = OkResponse([status |-> "ok"])
    /\ pc' = "done"
    /\ UNCHANGED <<req, image_api_key, veo_api_key, character_refs, scene_paths,
                   trailer_path, calls, arg, ret, env>>

Receive(r, requests) ==
    /\ pc = "idle"
    /\ route' = r
    /\ req' \in requests
    /\ pc' = "resolve_image_key"
    /\ UNCHANGED <<image_api_key, veo_api_key, character_refs, scene_paths,
                   trailer_path, calls, response, arg, ret, env>>

ReceiveCharacterReferences == Receive(CHARACTER_REFERENCES, CharacterReferenceRequests)
ReceiveSceneVideos == Receive(SCENE_VIDEOS, SceneVideoRequests)
ReceiveTrailer == Receive(TRAILER, TrailerGenerationRequests)

(* One entry of the log of delegate calls: the arguments and what the     *)
(* call returned or raised.                                                *)
Called(args, out) == [args |-> args, outcome |-> out]

(* The handler raises: the request ends with the error response. *)
Fail(exc) ==
    /\ response' = ErrorResponse(exc)
    /\ pc' = "done"

(* image_api_key = _resolve_api_key(request.image_api_key, "image_api_key") *)
AfterImageKey == IF route = CHARACTER_REFERENCES THEN "call_character_references"
                 ELSE "resolve_veo_key"

ResolveImageKey ==
    /\ pc = "resolve_image_key"
    /\ LET r == resolve_api_key(req.image_api_key, "image_api_key", secret_json) IN
        IF r.raised
           THEN Fail(r) /\ UNCHANGED image_api_key
           ELSE /\ image_api_key' = r.value
                /\ pc' = AfterImageKey
                /\ UNCHANGED response
    /\ UNCHANGED <<route, req, veo_api_key, character_refs, scene_paths,
                   trailer_path, calls, arg, ret, env>>

(* request.veo_api_key alone. *)
veo_key_own(request) == request.veo_api_key

(* request.veo_api_key or request.image_api_key *)
veo_key_provided(request) == Or(request.veo_api_key, request.image_api_key)

AfterVeoKey == IF route = SCENE_VIDEOS THEN "build_character_ref_map"
               ELSE "call_character_references"

(* veo_api_key = _resolve_api_key(..., "veo_api_key") *)
ResolveVeoKey ==
    /\ pc = "resolve_veo_key"
    /\ LET r == resolve_api_key(veo_key_provided(req), "veo_api_key", secret_json) IN
        IF r.raised
           THEN Fail(r) /\ UNCHANGED veo_api_key
           ELSE /\ veo_api_key' = r.value
                /\ pc' = AfterVeoKey
                /\ UNCHANGED response
    /\ UNCHANGED <<route, req, image_api_key, character_refs, scene_paths,
                   trailer_path, calls, arg, ret, env>>

(* character_refs = _build_character_ref_map(...) in create_scene_videos *)
BuildRequestRefMap ==
    /\ pc = "build_character_ref_map"
    /\ LET r == build_character_ref_map(req.scenes, req.character_refs,
                                         req.autoload_refs, ref_files) IN
        IF r.raised
           THEN Fail(r) /\ UNCHANGED character_refs
           ELSE /\ character_refs' = r.value
                /\ pc' = "call_scene_videos"
                /\ UNCHANGED response
    /\ UNCHANGED <<route, req, image_api_key, veo_api_key, scene_paths,
                   trailer_path, calls, arg, ret, env>>

CharacterReferencesArgs ==
    [fn |-> "generate_character_references",
     image_api_key |-> image_api_key,
     character_designs |-> DumpAll(req.character_designs)]

AfterCharacterReferences == IF route = TRAILER THEN "call_scene_videos" ELSE "respond"

(* generate_character_references(...) with its except clauses *)
CallGenerateCharacterReferences ==
    /\ pc = "call_character_references"
    /\ \E out \in CharacterReferenceOutcomes :
        /\ calls' = Append(calls, Called(CharacterReferencesArgs, out))
        /\ IF out.kind = "ok"
           THEN /\ character_refs' = out.value
                /\ pc' = AfterCharacterReferences
                /\ UNCHANGED response
           ELSE Fail(map_delegate_error(out)) /\ UNCHANGED character_refs
    /\ UNCHANGED <<route, req, image_api_key, veo_api_key, scene_paths,
                   trailer_path, arg, ret, env>>

SceneVideosArgsNoRefs ==
    [fn |-> "generate_scene_videos",
     image_api_key |-> image_api_key,
     veo_api_key |-> veo_api_key,
     scenes |-> DumpAll(req.scenes),
     character_refs |-> EmptyDict]

SceneVideosArgs ==
    [fn |-> "generate_scene_videos",
     image_api_key |-> image_api_key,
     veo_api_key |-> veo_api_key,
     scenes |-> DumpAll(req.scenes),
     character_refs |-> character_refs]

(* Stitching whatever the request says. *)
stitch_always(request) == TRUE

(* if request.stitch_trailer: *)
stitch_requested(request) == request.stitch_trailer

AfterSceneVideos == IF route = TRAILER /\ stitch_requested(req) THEN "call_stitch_videos"
                    ELSE "respond"

(* generate_scene_videos(...) with its except clauses *)
CallGenerateSceneVideos ==
    /\ pc = "call_scene_videos"
    /\ \E out \in SceneVideoOutcomes :
        /\ calls' = Append(calls, Called(SceneVideosArgs, out))
        /\ IF out.kind = "ok"
           THEN /\ scene_paths' = out.value
                /\ pc' = AfterSceneVideos
                /\ UNCHANGED response
           ELSE Fail(map_delegate_error(out)) /\ UNCHANGED scene_paths
    /\ UNCHANGED <<route, req, image_api_key, veo_api_key, character_refs,
                   trailer_path, arg, ret, env>>

StitchArgs == [fn |-> "stitch_videos", video_paths |-> scene_paths]

(* trailer_path = stitch_videos(scene_paths) with its except clauses *)
CallStitchVideos ==
    /\ pc = "call_stitch_videos"
    /\ \E out \in StitchOutcomes :
        /\ calls' = Append(calls, Called(StitchArgs, out))
        /\ IF out.kind = "ok"
           THEN /\ trailer_path' = out.value
                /\ pc' = "respond"
                /\ UNCHANGED response
           ELSE Fail(map_delegate_error(out)) /\ UNCHANGED trailer_path
    /\ UNCHANGED <<route, req, image_api_key, veo_api_key, character_refs,
                   scene_paths, arg, ret, env>>

(* The response models the handlers return. *)
CharacterReferenceResponse == [character_refs |-> character_refs]

SceneVideoResponse == [video_paths |-> StrPaths(scene_paths)]

TrailerGenerationResponse ==
    [character_refs |-> character_refs,
     scene_videos |-> StrPaths(scene_paths),
     trailer_path |-> IF trailer_path # NoPath THEN StrPath(trailer_path) ELSE None]

Respond(r, body) ==
    /\ pc = "respond"
    /\ route = r
    /\ response' = OkResponse(body)
    /\ pc' = "done"
    /\ UNCHANGED <<route, req, image_api_key, veo_api_key, character_refs,
                   scene_paths, trailer_path, calls, arg, ret, env>>

RespondCharacterReferences == Respond(CHARACTER_REFERENCES, CharacterReferenceResponse)
RespondSceneVideos == Respond(SCENE_VIDEOS, SceneVideoResponse)
RespondTrailer == Respond(TRAILER, TrailerGenerationResponse)

Next ==
    \/ Healthcheck
    \/ ReceiveCharacterReferences
    \/ ReceiveSceneVideos
    \/ ReceiveTrailer
    \/ ResolveImageKey
    \/ ResolveVeoKey
    \/ BuildRequestRefMap
    \/ CallGenerateCharacterReferences
    \/ CallGenerateSceneVideos
    \/ CallStitchVideos
    \/ RespondCharacterReferences
    \/ RespondSceneVideos
    \/ RespondTrailer

Spec == Init /\ [][Next]_vars

----------------------------------------------------------------------------
(* Properties of the helpers.                                              *)

(* reference_images of all scenes, concatenated in input order. *)
RECURSIVE AllReferences(_)
AllReferences(scenes) ==
    IF scenes = <<>> THEN <<>>
    ELSE Head(scenes).reference_images \o AllReferences(Tail(scenes))

FirstIndex(s, x) == CHOOSE i \in DOMAIN s : s[i] = x /\ \A j \in 1..(i - 1) : s[j] # x

NoDuplicates(s) == \A i, j \in DOMAIN s : i # j => s[i] # s[j]

(* C1: _collect_referenced_characters returns exactly the names that occur *)
(* in some scene's reference_images, each once, ordered by first           *)
(* occurrence over the scenes and their reference_images in input order;   *)
(* no references at all give the empty list.                               *)
C1_CollectFirstOccurrence ==
    pc = "return" =>
        LET all == AllReferences(arg.scenes)
            out == ret.value
        IN /\ ~ret.raised
           /\ Range(out) = Range(all)
           /\ NoDuplicates(out)
           /\ \A i, j \in DOMAIN out :
                i < j => FirstIndex(all, out[i]) < FirstIndex(all, out[j])
           /\ (all = <<>> => out = <<>>)

(* A duplicate across scenes, and a first-occurrence order that is not    *)
(* the sorted one.                                                         *)
C1_Witness ==
    /\ pc = "return"
    /\ arg.scenes = <<Scene(<<"B", "A">>), Scene(<<"A", "C">>)>>
    /\ ret.value = <<"B", "A", "C">>

(* The names a "Missing reference paths for" detail lists, in order. *)
ListedNames(detail) ==
    [i \in 1..(Len(detail) \div 2) |-> detail[2 * i]]

MissingFrom(scenes, provided_refs) ==
    SelectSeq(collect_referenced_characters(scenes),
              LAMBDA c : c \notin DOMAIN provided_refs.map)

(* C3: with no provided_refs and autoload_refs true, the result is the map *)
(* from exactly the referenced characters to <OUTPUT_DIR>/refs/<name>.png  *)
(* when every such file exists, and otherwise a 400 that names the first   *)
(* referenced character, in collector order, whose file is missing.        *)
C3_AutoloadAllOrFirstMissing ==
    (pc = "return" /\ ~arg.provided_refs.present /\ arg.autoload_refs) =>
        LET referenced == collect_referenced_characters(arg.scenes)
            absent == SelectSeq(referenced, LAMBDA c : c \notin arg.files)
        IN IF absent = <<>>
           THEN /\ ~ret.raised
                /\ DOMAIN ret.value = Range(referenced)
                /\ \A c \in DOMAIN ret.value :
                     ret.value[c] = "output/refs/" \o c \o ".png"
           ELSE /\ ret.raised
                /\ ret.status_code = 400
                /\ ret.detail[2] = Head(absent)
                /\ ret.detail[4] = "output/refs/" \o Head(absent) \o ".png"
                /\ "value" \notin DOMAIN ret

(* The second referenced character is the first whose file is missing. *)
C3_Witness ==
    /\ pc = "return"
    /\ ~arg.provided_refs.present
    /\ arg.autoload_refs
    /\ arg.scenes = <<Scene(<<"B", "A">>)>>
    /\ arg.files = {"B"}
    /\ ret.raised
    /\ ret.detail[2] = "A"

(* C4: with secret.json absent or a JSON object, _resolve_api_key returns  *)
(* the supplied key when it is non-empty, otherwise the file's             *)
(* project_api_key when that is present and non-empty, and otherwise fails *)
(* with a 400 whose detail names key_name.                                 *)
C4_ResolveApiKeyOrder ==
    (pc = "return" /\ arg.secret.kind \in {"absent", "object"}) =>
        IF arg.provided \notin {None, ""}
        THEN ret = Return(arg.provided)
        ELSE IF arg.secret.kind = "object" /\ arg.secret.key \notin {None, ""}
        THEN ret = Return(arg.secret.key)
        ELSE /\ ret.raised
             /\ ret.status_code = 400
             /\ Head(ret.detail) = arg.key_name

(* An empty supplied key falls back to the key of secret.json. *)
C4_Witness ==
    /\ pc = "return"
    /\ arg.provided = ""
    /\ arg.secret = Secret("object", "s1")
    /\ ret = Return("s1")

----------------------------------------------------------------------------
(* Properties of the routes.                                               *)

PostRoutes == {CHARACTER_REFERENCES, SCENE_VIDEOS, TRAILER}

Invoked(fn) == \E i \in DOMAIN calls : calls[i].args.fn = fn

(* The handler got past both key resolutions. *)
KeysResolved == image_api_key # None /\ veo_api_key # None

C5_NoStitchWhenNotRequested ==
    (route = TRAILER /\ ~req.stitch_trailer) =>
        /\ ~Invoked("stitch_videos")
        /\ pc # "call_stitch_videos"
        /\ (/\ pc = "done"
            /\ Len(calls) = 2
            /\ \A i \in DOMAIN calls : calls[i].outcome.kind = "ok")
           => /\ response.status_code = 200
              /\ response.body.trailer_path = None
              /\ response.body.character_refs = calls[1].outcome.value
              /\ response.body.scene_videos =
                    [i \in DOMAIN calls[2].outcome.value |-> calls[2].outcome.value[i].path]

C5_Witness ==
    /\ pc = "done"
    /\ route = TRAILER
    /\ ~req.stitch_trailer
    /\ response.status_code = 200
    /\ Len(response.body.scene_videos) = 2
    /\ response.body.trailer_path = None

(* C6: whenever generate_scene_videos is invoked, every character name in  *)
(* any scene's reference_images is a key of the character_refs passed.     *)
C6_SceneCallHasAllRefs ==
    \A i \in DOMAIN calls :
        calls[i].args.fn = "generate_scene_videos" =>
            Range(AllReferences(calls[i].args.scenes)) \subseteq DOMAIN calls[i].args.character_refs

(* The same on the scene-videos route alone. *)
SceneVideosRouteCallHasAllRefs == route = SCENE_VIDEOS => C6_SceneCallHasAllRefs

(* The first non-empty of three optional strings. *)
FirstOf(a, b, c) ==
    IF a \notin {None, ""} THEN a ELSE IF b \notin {None, ""} THEN b ELSE c

SecretDefault == IF secret_json.kind = "object" THEN secret_json.key ELSE None

(* C7 as stated: the video key is the request's veo_api_key, else the      *)
(* default of secret.json, else the resolved image key.                    *)
C7_VeoKeyPrefersSecret ==
    veo_api_key # None =>
        veo_api_key = FirstOf(req.veo_api_key, SecretDefault, image_api_key)

(* C7, amended: the video key passed to the delegate is the first          *)
(* non-empty of the request's veo_api_key, the request's image_api_key and *)
(* the project_api_key of secret.json.                                     *)
C7_VeoKeyPrefersRequestKeys ==
    /\ veo_api_key # None =>
         veo_api_key = FirstOf(req.veo_api_key, req.image_api_key, SecretDefault)
    /\ \A i \in DOMAIN calls :
         calls[i].args.fn = "generate_scene_videos" =>
            calls[i].args.veo_api_key =
                FirstOf(req.veo_api_key, req.image_api_key, SecretDefault)

(* No veo key, an image key and a different key in secret.json. *)
C7_Witness ==
    /\ Invoked("generate_scene_videos")
    /\ req.veo_api_key = None
    /\ req.image_api_key = "k_img"
    /\ secret_json = Secret("object", "s1")
    /\ veo_api_key = "k_img"

(* C8: a delegate's ValueError becomes a 400 and any other failure a 500,  *)
(* each carrying the delegate's message, and no delegate is invoked twice  *)
(* within a request.                                                       *)
C8_DelegateErrorMapping ==
    /\ \A i \in DOMAIN calls :
         calls[i].outcome.kind # "ok" =>
            /\ i = Len(calls)
            /\ pc = "done"
            /\ response.status_code = IF calls[i].outcome.kind = "ValueError" THEN 400 ELSE 500
            /\ response.body = [detail |-> <<calls[i].outcome.message>>]
    /\ \A i, j \in DOMAIN calls : i # j => calls[i].args.fn # calls[j].args.fn

C8_Witness ==
    /\ pc = "done"
    /\ route = TRAILER
    /\ Len(calls) = 3
    /\ calls[3].outcome.kind = "ValueError"
    /\ response.status_code = 400

TrailerOrder == <<"generate_character_references", "generate_scene_videos", "stitch_videos">>

(* C9: on the trailer route the delegates run after both keys are          *)
(* resolved, in the order references, scene videos, stitching; the scene   *)
(* videos get the refs the first call returned, stitching runs only if     *)
(* requested and gets the video list as returned, a step runs only if the  *)
(* earlier ones succeeded, and a failure gives an error response without   *)
(* refs, videos or trailer path.                                           *)
C9_TrailerStepsInOrder ==
    route = TRAILER =>
        /\ calls # <<>> => KeysResolved
        /\ Len(calls) <= 3
        /\ \A i \in DOMAIN calls :
            /\ calls[i].args.fn = TrailerOrder[i]
            /\ i < Len(calls) => calls[i].outcome.kind = "ok"
        /\ Len(calls) >= 2 => calls[2].args.character_refs = calls[1].outcome.value
        /\ Len(calls) >= 3 =>
            /\ req.stitch_trailer
            /\ calls[3].args.video_paths = calls[2].outcome.value
        /\ pc = "done" =>
            IF /\ Len(calls) = (IF req.stitch_trailer THEN 3 ELSE 2)
               /\ \A i \in DOMAIN calls : calls[i].outcome.kind = "ok"
            THEN response.status_code = 200
            ELSE /\ response.status_code \in {400, 500}
                 /\ DOMAIN response.body = {"detail"}

C9_Witness ==
    /\ pc = "done"
    /\ route = TRAILER
    /\ Len(calls) = 3
    /\ calls[3].outcome.kind = "ok"
    /\ calls[2].args.character_refs = calls[1].outcome.value
    /\ DOMAIN calls[1].outcome.value = {"A"}
    /\ response.status_code = 200

(* C10: with an unparseable secret.json, a POST request that omits         *)
(* image_api_key fails with a 500 describing the parse failure and no      *)
(* delegate is invoked; with no secret.json the default key is None and    *)
(* nothing is raised by the loader.                                        *)
C10_MalformedSecretIsServerError ==
    /\ (/\ route \in PostRoutes
        /\ secret_json.kind = "malformed"
        /\ req.image_api_key = None)
       => /\ calls = <<>>
          /\ pc \in {"resolve_image_key", "done"}
          /\ pc = "done" =>
                /\ response.status_code = 500
                /\ Head(response.body.detail) = "Invalid secret.json format: "
    /\ secret_json.kind = "absent" =>
          /\ load_default_api_key(secret_json) = Return(None)
          /\ (route \in PostRoutes /\ req.image_api_key = None /\ pc = "done")
                => response.status_code = 400

C10_Witness ==
    /\ pc = "done"
    /\ route = SCENE_VIDEOS
    /\ secret_json.kind = "malformed"
    /\ req.image_api_key = None
    /\ req.veo_api_key = "k_veo"
    /\ response.status_code = 500

====
